---------------------------- MODULE Spec2Model ----------------------------
(***************************************************************************)
(* Model of the Firehose transformation Lambda (lambda_firehose_handler.py)*)
(* and of its decryption utility (decrypt_payload.py).                     *)
(*                                                                         *)
(* Representation.  A Python str is a sequence of Unicode code points, a   *)
(* Python bytes object is a sequence of numbers 0..255.  A function that   *)
(* may raise returns a record [raised, val]; val is meaningful only when   *)
(* raised is FALSE.                                                        *)
(***************************************************************************)
EXTENDS Integers, Sequences, FiniteSets, TLC

(***************************************************************************)
(* Text literals.  Ascii lists the printable ASCII characters from code 32 *)
(* to code 126 (the grave accent, code 96, is written "grave"); S turns a   *)
(* tuple of one-character strings into the str.                            *)
(***************************************************************************)
Ascii ==
  << " ", "!", "\"", "#", "$", "%", "&", "'", "(", ")", "*", "+", ",", "-",
     ".", "/", "0", "1", "2", "3", "4", "5", "6", "7", "8", "9", ":", ";",
     "<", "=", ">", "?", "@", "A", "B", "C", "D", "E", "F", "G", "H", "I",
     "J", "K", "L", "M", "N", "O", "P", "Q", "R", "S", "T", "U", "V", "W",
     "X", "Y", "Z", "[", "\\", "]", "^", "_", "grave", "a", "b", "c", "d", "e",
     "f", "g", "h", "i", "j", "k", "l", "m", "n", "o", "p", "q", "r", "s",
     "t", "u", "v", "w", "x", "y", "z", "{", "|", "}", "~" >>

Ord(c) == 31 + (CHOOSE i \in DOMAIN Ascii : Ascii[i] = c)

S(t) == [i \in DOMAIN t |-> Ord(t[i])]

\* The indices of s, in order.
Indices(s) == [i \in 1..Len(s) |-> i]

Raise == [raised |-> TRUE, val |-> << >>]

Return(v) == [raised |-> FALSE, val |-> v]

(***************************************************************************)
(* str.encode('utf-8') and bytes.decode('utf-8') (strict error handling).  *)
(***************************************************************************)
IsSurrogate(cp) == cp >= 55296 /\ cp <= 57343

Utf8EncodeOne(cp) ==
  IF cp < 128 THEN << cp >>
  ELSE IF cp < 2048 THEN << 192 + (cp \div 64), 128 + (cp % 64) >>
  ELSE IF cp < 65536
    THEN << 224 + (cp \div 4096), 128 + ((cp \div 64) % 64), 128 + (cp % 64) >>
  ELSE << 240 + (cp \div 262144), 128 + ((cp \div 4096) % 64),
          128 + ((cp \div 64) % 64), 128 + (cp % 64) >>

\* The encoding of s[lo..hi], halving the range.
RECURSIVE Utf8EncodeRange(_, _, _)
Utf8EncodeRange(s, lo, hi) ==
  IF lo > hi THEN << >>
  ELSE IF lo = hi THEN Utf8EncodeOne(s[lo])
  ELSE LET mid == (lo + hi) \div 2 IN
       Utf8EncodeRange(s, lo, mid) \o Utf8EncodeRange(s, mid + 1, hi)

\* s.encode('utf-8'): UnicodeEncodeError on a lone surrogate.
Utf8Encode(s) ==
  IF \E i \in DOMAIN s : IsSurrogate(s[i]) THEN Raise
  ELSE Return(Utf8EncodeRange(s, 1, Len(s)))

IsCont(b, i) == i <= Len(b) /\ b[i] >= 128 /\ b[i] <= 191

InRange(b, i, lo, hi) == i <= Len(b) /\ b[i] >= lo /\ b[i] <= hi

\* The length of the sequence a lead byte c announces, 0 when c is no lead.
Utf8SeqLen(c) ==
  IF c < 128 THEN 1
  ELSE IF c >= 194 /\ c <= 223 THEN 2
  ELSE IF c >= 224 /\ c <= 239 THEN 3
  ELSE IF c >= 240 /\ c <= 244 THEN 4
  ELSE 0

\* b[i] starts a well-formed sequence.
Utf8WellFormedAt(b, i) ==
  LET c == b[i] IN
  IF c < 128 THEN TRUE
  ELSE IF c >= 194 /\ c <= 223 THEN IsCont(b, i + 1)
  ELSE IF c >= 224 /\ c <= 239
    THEN /\ InRange(b, i + 1, IF c = 224 THEN 160 ELSE 128,
                              IF c = 237 THEN 159 ELSE 191)
         /\ IsCont(b, i + 2)
  ELSE IF c >= 240 /\ c <= 244
    THEN /\ InRange(b, i + 1, IF c = 240 THEN 144 ELSE 128,
                              IF c = 244 THEN 143 ELSE 191)
         /\ IsCont(b, i + 2) /\ IsCont(b, i + 3)
  ELSE FALSE

\* The continuation byte b[i] belongs to the sequence of a lead before it.
Utf8Covered(b, i) ==
  \E j \in (i - 3)..(i - 1) :
    /\ j >= 1 /\ ~IsCont(b, j) /\ Utf8SeqLen(b[j]) > i - j
    /\ \A k \in (j + 1)..(i - 1) : IsCont(b, k)

\* The code point of the well-formed sequence that starts at b[i].
Utf8CodePointAt(b, i) ==
  LET c == b[i] IN
  IF c < 128 THEN c
  ELSE IF c <= 223 THEN (c - 192) * 64 + (b[i + 1] - 128)
  ELSE IF c <= 239
    THEN (c - 224) * 4096 + (b[i + 1] - 128) * 64 + (b[i + 2] - 128)
  ELSE (c - 240) * 262144 + (b[i + 1] - 128) * 4096
       + (b[i + 2] - 128) * 64 + (b[i + 3] - 128)

\* b.decode('utf-8'): UnicodeDecodeError on an ill-formed sequence.
Utf8Decode(b) ==
  LET IsLead(i) == ~IsCont(b, i)
      leads     == SelectSeq(Indices(b), IsLead)
  IN
  IF \A i \in DOMAIN b :
       IF IsCont(b, i) THEN Utf8Covered(b, i) ELSE Utf8WellFormedAt(b, i)
    THEN Return([k \in DOMAIN leads |-> Utf8CodePointAt(b, leads[k])])
    ELSE Raise

(***************************************************************************)
(* base64.b64encode and base64.b64decode (standard alphabet; the decoder   *)
(* is binascii.a2b_base64 in its default, non-strict mode: characters      *)
(* outside the alphabet are skipped and input after a complete pad         *)
(* sequence is ignored).                                                   *)
(***************************************************************************)
B64Alphabet ==
  S(<< "A", "B", "C", "D", "E", "F", "G", "H", "I", "J", "K", "L", "M", "N",
       "O", "P", "Q", "R", "S", "T", "U", "V", "W", "X", "Y", "Z", "a", "b",
       "c", "d", "e", "f", "g", "h", "i", "j", "k", "l", "m", "n", "o", "p",
       "q", "r", "s", "t", "u", "v", "w", "x", "y", "z", "0", "1", "2", "3",
       "4", "5", "6", "7", "8", "9", "+", "/" >>)

B64Pad == Ord("=")

B64Char(n) == B64Alphabet[n + 1]

\* The 6-bit value of character c, or 64 when c is outside the alphabet.
B64Value(c) ==
  IF c >= Ord("A") /\ c <= Ord("Z") THEN c - Ord("A")
  ELSE IF c >= Ord("a") /\ c <= Ord("z") THEN c - Ord("a") + 26
  ELSE IF c >= Ord("0") /\ c <= Ord("9") THEN c - Ord("0") + 52
  ELSE IF c = Ord("+") THEN 62
  ELSE IF c = Ord("/") THEN 63
  ELSE 64

\* base64.b64encode(b).decode('utf-8'): character k of the output belongs
\* to the group of three bytes that starts at b[i].
B64Encode(b) ==
  LET n == Len(b)
      ByteAt(j) == IF j <= n THEN b[j] ELSE 0
  IN
  [k \in 1..(4 * ((n + 2) \div 3)) |->
     LET i == 3 * ((k - 1) \div 4) + 1
         r == (k - 1) % 4
     IN
     IF r = 0 THEN B64Char(b[i] \div 4)
     ELSE IF r = 1 THEN B64Char((b[i] % 4) * 16 + (ByteAt(i + 1) \div 16))
     ELSE IF r = 2 THEN
       (IF i + 1 > n THEN B64Pad
        ELSE B64Char((b[i + 1] % 16) * 4 + (ByteAt(i + 2) \div 64)))
     ELSE (IF i + 2 > n THEN B64Pad ELSE B64Char(b[i + 2] % 64))]

(***************************************************************************)
(* binascii.a2b_base64, non-strict.  The C loop keeps quad_pos, the number *)
(* of alphabet characters read so far modulo 4, and pads, the pad          *)
(* characters seen since the last alphabet character while quad_pos >= 2;  *)
(* it stops at the first pad character with quad_pos >= 2 and              *)
(* quad_pos + pads >= 4, and fails when the input ends with quad_pos # 0.  *)
(* Here the same result is computed from the positions of the alphabet     *)
(* characters (dpos) and of the pad characters (ppos).                     *)
(***************************************************************************)
A2bBase64(s) ==
  LET IsData(i)  == B64Value(s[i]) < 64
      IsPad(i)   == s[i] = B64Pad
      dpos       == SelectSeq(Indices(s), IsData)
      ppos       == SelectSeq(Indices(s), IsPad)
      \* the alphabet characters before position i
      Before(i)  == Cardinality({j \in DOMAIN dpos : dpos[j] < i})
      \* the loop leaves at the pad character s[i]
      Stops(i)   ==
        \/ Before(i) % 4 = 3
        \/ /\ Before(i) % 4 = 2
           /\ \E j \in DOMAIN ppos : ppos[j] < i /\ Before(ppos[j]) = Before(i)
      stoppers   == SelectSeq(ppos, Stops)
      m          == IF stoppers # << >> THEN Before(stoppers[1]) ELSE Len(dpos)
      V(j)       == B64Value(s[dpos[j]])
  IN
  IF stoppers = << >> /\ m % 4 # 0 THEN Raise
  ELSE Return(
    [t \in 1..((m * 3) \div 4) |->
       LET r == (t - 1) % 3
           j == 4 * ((t - 1) \div 3) + r + 1
       IN
       IF r = 0 THEN V(j) * 4 + (V(j + 1) \div 16)
       ELSE IF r = 1 THEN (V(j) % 16) * 16 + (V(j + 1) \div 4)
       ELSE (V(j) % 4) * 64 + V(j + 1)])

\* base64.b64decode(s) for a str s: ValueError when s is not ASCII,
\* binascii.Error on incorrect padding.
B64Decode(s) ==
  IF \E i \in DOMAIN s : s[i] >= 128 THEN Raise
  ELSE A2bBase64(s)

(***************************************************************************)
(* hmac.new(key, msg, hashlib.sha256).digest().  SHA-256 itself is not     *)
(* computed: HmacSha256 is a stand-in with what the program relies on, a   *)
(* deterministic function of the key and of the message bytes alone whose  *)
(* result has the digest's length and changes with every byte of either.   *)
(***************************************************************************)
DigestSize == 32

\* The sum of (b[i] + 1) * (2 * i + 1) over lo..hi modulo 65521 (a prime),
\* halving the range: changing, adding or removing any one byte changes it.
RECURSIVE WeightedSum(_, _, _)
WeightedSum(b, lo, hi) ==
  IF lo > hi THEN 0
  ELSE IF lo = hi THEN ((b[lo] + 1) * ((2 * lo + 1) % 65521)) % 65521
  ELSE LET mid == (lo + hi) \div 2 IN
       (WeightedSum(b, lo, mid) + WeightedSum(b, mid + 1, hi)) % 65521

HmacSha256(key, msg) ==
  LET k == WeightedSum(key, 1, Len(key))
      h == (k * 257 + WeightedSum(msg, 1, Len(msg)) + Len(msg)) % 65521
  IN  [i \in 1..DigestSize |->
         IF i = 1 THEN h % 256
         ELSE IF i = 2 THEN h \div 256
         ELSE ((h + k) * i + k) % 256]

\* hmac.compare_digest(a, b): equality of the two byte strings.
CompareDigest(a, b) == a = b

(***************************************************************************)
(* The constants of the two programs.                                      *)
(***************************************************************************)
\* b'sudhir1234567890'
secret_key ==
  S(<< "s", "u", "d", "h", "i", "r", "1", "2", "3", "4", "5", "6", "7", "8",
       "9", "0" >>)

\* 'ApplicationData.Encrypt'
Key_Encrypt ==
  S(<< "A", "p", "p", "l", "i", "c", "a", "t", "i", "o", "n", "D", "a", "t",
       "a", ".", "E", "n", "c", "r", "y", "p", "t" >>)

\* 'ApplicationData.Payload'
Key_Payload ==
  S(<< "A", "p", "p", "l", "i", "c", "a", "t", "i", "o", "n", "D", "a", "t",
       "a", ".", "P", "a", "y", "l", "o", "a", "d" >>)

\* 'ApplicationData.Encrypted'
Key_Encrypted ==
  S(<< "A", "p", "p", "l", "i", "c", "a", "t", "i", "o", "n", "D", "a", "t",
       "a", ".", "E", "n", "c", "r", "y", "p", "t", "e", "d" >>)

\* 'message'
Key_message ==
  S(<< "m", "e", "s", "s", "a", "g", "e" >>)

Colon == Ord(":")

(***************************************************************************)
(* encrypt_payload, lines 20-30: the sealed value of data_bytes under key. *)
(***************************************************************************)
\* Seal with the two segments in the other order.
Seal_TagFirst(data_bytes, key) ==
  B64Encode(HmacSha256(key, data_bytes)) \o << Colon >> \o B64Encode(data_bytes)

\* Seal with the tag computed over the base64 text of the data.
Seal_TagOverText(data_bytes, key) ==
  B64Encode(data_bytes) \o << Colon >>
    \o B64Encode(HmacSha256(key, B64Encode(data_bytes)))

Seal(data_bytes, key) ==
  LET hmac_hash == HmacSha256(key, data_bytes)
      data_b64  == B64Encode(data_bytes)
      hmac_b64  == B64Encode(hmac_hash)
  IN  data_b64 \o << Colon >> \o hmac_b64

(***************************************************************************)
(* decrypt_payload.  The result is the pair the function returns:          *)
(* is_none tells that the first component is None, decrypted_data is the   *)
(* text otherwise.                                                         *)
(***************************************************************************)
\* s.split(sep): the pieces of s between the occurrences of sep.
Split(s, sep) ==
  LET IsSep(i) == s[i] = sep
      seps     == SelectSeq(Indices(s), IsSep)
  IN  [k \in 1..(Len(seps) + 1) |->
         SubSeq(s, IF k = 1 THEN 1 ELSE seps[k - 1] + 1,
                   IF k > Len(seps) THEN Len(s) ELSE seps[k] - 1)]

NoneFalse == [is_none |-> TRUE, decrypted_data |-> << >>, is_valid |-> FALSE]

\* decrypt_payload returning None when the tags differ.
decrypt_payload_Strict(encrypted_data, key) ==
  LET parts == Split(encrypted_data, Colon) IN
  IF Len(parts) # 2 THEN NoneFalse
  ELSE
    LET data_bytes    == B64Decode(parts[1])
        received_hmac == B64Decode(parts[2])
    IN
    IF data_bytes.raised \/ received_hmac.raised THEN NoneFalse
    ELSE IF received_hmac.val # HmacSha256(key, data_bytes.val) THEN NoneFalse
    ELSE
      LET decrypted_data == Utf8Decode(data_bytes.val) IN
      IF decrypted_data.raised THEN NoneFalse
      ELSE [is_none |-> FALSE, decrypted_data |-> decrypted_data.val,
            is_valid |-> TRUE]

decrypt_payload(encrypted_data, key) ==
  LET parts == Split(encrypted_data, Colon) IN
  IF Len(parts) # 2 THEN NoneFalse
  ELSE
    LET data_bytes    == B64Decode(parts[1])
        received_hmac == B64Decode(parts[2])
    IN
    IF data_bytes.raised \/ received_hmac.raised THEN NoneFalse
    ELSE
      LET calculated_hmac == HmacSha256(key, data_bytes.val)
          is_valid        == CompareDigest(received_hmac.val, calculated_hmac)
          decrypted_data  == Utf8Decode(data_bytes.val)
      IN
      IF decrypted_data.raised THEN NoneFalse
      ELSE [is_none |-> FALSE, decrypted_data |-> decrypted_data.val,
            is_valid |-> is_valid]


(***************************************************************************)
(* JSON documents.  A value is a record [t, s, items]: t is its type       *)
(* ("obj", "arr", "str", "int", "float", "const", "true", "false",         *)
(* "null"), s the text of a str or the literal of a number, items the      *)
(* members of a dict, in insertion order, as records [k, v], or the        *)
(* elements of a list (k empty).                                           *)
(***************************************************************************)
Atom(t, s) == [t |-> t, s |-> s, items |-> << >>]

StrV(s) == Atom("str", s)

NoneV == Atom("null", << >>)

ObjV(items) == [t |-> "obj", s |-> << >>, items |-> items]

ArrV(items) == [t |-> "arr", s |-> << >>, items |-> items]

\* key in d
DictHas(d, key) == \E i \in DOMAIN d.items : d.items[i].k = key

\* d.get(key, default)
DictGet(d, key, default) ==
  IF DictHas(d, key)
    THEN d.items[CHOOSE i \in DOMAIN d.items : d.items[i].k = key].v
    ELSE default

\* d[key] = v: an existing key keeps its place, a new one goes last.
DictSet(d, key, v) ==
  IF DictHas(d, key)
    THEN [d EXCEPT !.items =
            [i \in DOMAIN d.items |->
               IF d.items[i].k = key THEN [k |-> key, v |-> v] ELSE d.items[i]]]
    ELSE [d EXCEPT !.items = Append(d.items, [k |-> key, v |-> v])]

(***************************************************************************)
(* json.loads.  A parse step returns [ok, pos, val]: pos is the index      *)
(* after the value read.  Interpreter limits (the recursion limit, the     *)
(* limit on the digits of an int) are not modelled.                        *)
(***************************************************************************)
NoParse == [ok |-> FALSE, pos |-> 0, val |-> NoneV]

At(pos, val) == [ok |-> TRUE, pos |-> pos, val |-> val]

IsWs(c) == c = 32 \/ c = 9 \/ c = 10 \/ c = 13

\* The first index from i on that holds no whitespace.
SkipWs(s, i) ==
  CHOOSE j \in i..(Len(s) + 1) :
    /\ j > Len(s) \/ ~IsWs(s[j])
    /\ \A k \in i..(j - 1) : IsWs(s[k])

HasAt(s, i, word) ==
  /\ i + Len(word) - 1 <= Len(s)
  /\ \A j \in 1..Len(word) : s[i + j - 1] = word[j]

IsDigit(s, i) == i <= Len(s) /\ s[i] >= Ord("0") /\ s[i] <= Ord("9")

\* The first index from i on that holds no digit.
SkipDigits(s, i) ==
  CHOOSE j \in i..(Len(s) + 1) :
    /\ ~IsDigit(s, j)
    /\ \A k \in i..(j - 1) : IsDigit(s, k)

HexValue(c) ==
  IF c >= Ord("0") /\ c <= Ord("9") THEN c - Ord("0")
  ELSE IF c >= Ord("a") /\ c <= Ord("f") THEN c - Ord("a") + 10
  ELSE IF c >= Ord("A") /\ c <= Ord("F") THEN c - Ord("A") + 10
  ELSE 16

\* The value of the four hex digits at s[i..i+3], or -1.
Hex4At(s, i) ==
  IF i + 3 <= Len(s) /\ \A j \in 0..3 : HexValue(s[i + j]) < 16
    THEN HexValue(s[i]) * 4096 + HexValue(s[i + 1]) * 256
         + HexValue(s[i + 2]) * 16 + HexValue(s[i + 3])
    ELSE -1

\* The character an escape letter stands for, or -1.
Unescape(c) ==
  IF c = Ord("\"") \/ c = Ord("\\") \/ c = Ord("/") THEN c
  ELSE IF c = Ord("b") THEN 8
  ELSE IF c = Ord("f") THEN 12
  ELSE IF c = Ord("n") THEN 10
  ELSE IF c = Ord("r") THEN 13
  ELSE IF c = Ord("t") THEN 9
  ELSE -1

(***************************************************************************)
(* scanstring (strict): s[i] is the character after the opening quote.     *)
(* The C loop reads the string left to right; here the same result is      *)
(* computed from positions.  A backslash starts an escape when an even     *)
(* number of backslashes comes right before it; the string ends at the     *)
(* first quote that no escape covers.                                      *)
(***************************************************************************)
Backslash == Ord("\\")

\* The number of consecutive backslashes that end at s[p - 1].
BackslashRun(s, p) ==
  CHOOSE d \in 0..(p - 1) :
    /\ \A k \in (p - d)..(p - 1) : s[k] = Backslash
    /\ p - d - 1 = 0 \/ s[p - d - 1] # Backslash

IsEscape(s, p) ==
  p >= 1 /\ p <= Len(s) /\ s[p] = Backslash /\ BackslashRun(s, p) % 2 = 0

\* The \uXXXX escape that starts at s[p], as a number, or -1.
UEscapeAt(s, p) ==
  IF IsEscape(s, p) /\ p + 1 <= Len(s) /\ s[p + 1] = Ord("u")
    THEN Hex4At(s, p + 2) ELSE -1

IsHigh(u) == u >= 55296 /\ u <= 56319

IsLow(u) == u >= 56320 /\ u <= 57343

ScanString(s, i, acc) ==
  LET Closes(p) == s[p] = Ord("\"") /\ ~IsEscape(s, p - 1)
      ends      == {p \in i..Len(s) : Closes(p)}
  IN
  IF ends = {} THEN NoParse
  ELSE
    LET q == CHOOSE p \in ends : \A p2 \in ends : p <= p2
        \* the escape at p is well formed
        EscapeOk(p) ==
          IF s[p + 1] = Ord("u") THEN Hex4At(s, p + 2) >= 0
          ELSE Unescape(s[p + 1]) >= 0
        \* s[p] is the low half of a surrogate pair written as two escapes
        IsLowHalf(p) ==
          IsLow(UEscapeAt(s, p)) /\ p - 6 >= i /\ IsHigh(UEscapeAt(s, p - 6))
        \* s[p] starts a character of the result
        Starts(p) ==
          /\ ~IsEscape(s, p - 1)
          /\ \A r \in (p - 5)..(p - 2) : r < i \/ UEscapeAt(s, r) < 0
          /\ ~IsLowHalf(p)
        starts == SelectSeq([k \in 1..(q - i) |-> i + k - 1], Starts)
        CharAt(p) ==
          IF ~IsEscape(s, p) THEN s[p]
          ELSE IF s[p + 1] # Ord("u") THEN Unescape(s[p + 1])
          ELSE IF IsHigh(UEscapeAt(s, p)) /\ IsLow(UEscapeAt(s, p + 6))
            THEN 65536 + (UEscapeAt(s, p) - 55296) * 1024
                 + (UEscapeAt(s, p + 6) - 56320)
          ELSE UEscapeAt(s, p)
    IN
    IF \E p \in i..(q - 1) : s[p] < 32 \/ (IsEscape(s, p) /\ ~EscapeOk(p))
      THEN NoParse
      ELSE At(q + 1, StrV(acc \o [k \in DOMAIN starts |-> CharAt(starts[k])]))

\* The index after the number that starts at s[i], or 0 when there is none:
\* -?(0|[1-9][0-9]*)(\.[0-9]+)?([eE][-+]?[0-9]+)?
\* c is the index after the fraction, d the index after the exponent's sign.
AfterExponentSign(s, c, d) == IF IsDigit(s, d) THEN SkipDigits(s, d) ELSE c

AfterFraction(s, c) ==
  IF c <= Len(s) /\ (s[c] = Ord("e") \/ s[c] = Ord("E"))
    THEN AfterExponentSign(s, c,
           IF c + 1 <= Len(s) /\ (s[c + 1] = Ord("+") \/ s[c + 1] = Ord("-"))
             THEN c + 2 ELSE c + 1)
    ELSE c

AfterInteger(s, b) ==
  AfterFraction(s,
    IF b <= Len(s) /\ s[b] = Ord(".") /\ IsDigit(s, b + 1)
      THEN SkipDigits(s, b + 1) ELSE b)

AfterMinus(s, a) ==
  IF ~IsDigit(s, a) THEN 0
  ELSE AfterInteger(s, IF s[a] = Ord("0") THEN a + 1 ELSE SkipDigits(s, a))

NumberEnd(s, i) ==
  AfterMinus(s, IF i <= Len(s) /\ s[i] = Ord("-") THEN i + 1 ELSE i)

\* The value of the number literal s[i..j-1] (int("-0") is 0; the literal
\* of a float is kept as written).
NumberV(s, i, j) ==
  LET text == SubSeq(s, i, j - 1) IN
  IF \E n \in DOMAIN text : text[n] \in {Ord("."), Ord("e"), Ord("E")}
    THEN Atom("float", text)
  ELSE IF text = S(<< "-", "0" >>) THEN Atom("int", S(<< "0" >>))
  ELSE Atom("int", text)

RECURSIVE ScanOnce(_, _)
RECURSIVE ParseMembers(_, _, _)
RECURSIVE ParseElements(_, _, _)

\* JSONObject: s[i] is the character after the brace.
ParseObject(s, i) ==
  LET j == SkipWs(s, i) IN
  IF j > Len(s) THEN NoParse
  ELSE IF s[j] = Ord("}") THEN At(j + 1, ObjV(<< >>))
  ELSE IF s[j] # Ord("\"") THEN NoParse
  ELSE ParseMembers(s, j, ObjV(<< >>))

\* What follows the value v of the member with the given key: the closing
\* brace, or a comma and the next member.
AfterMember(s, d, key, v) ==
  IF ~v.ok THEN NoParse
  ELSE
    LET e  == SkipWs(s, v.pos)
        d2 == DictSet(d, key, v.val)
    IN
    IF e > Len(s) THEN NoParse
    ELSE IF s[e] = Ord("}") THEN At(e + 1, d2)
    ELSE IF s[e] # Ord(",") THEN NoParse
    ELSE
      LET n == SkipWs(s, e + 1) IN
      IF n > Len(s) \/ s[n] # Ord("\"") THEN NoParse
      ELSE ParseMembers(s, n, d2)

\* One "key": value pair starting at the quote s[j], then the rest.
ParseMembers(s, j, d) ==
  LET key == ScanString(s, j + 1, << >>) IN
  IF ~key.ok THEN NoParse
  ELSE
    LET c == SkipWs(s, key.pos) IN
    IF c > Len(s) \/ s[c] # Colon THEN NoParse
    ELSE AfterMember(s, d, key.val.s, ScanOnce(s, SkipWs(s, c + 1)))

\* JSONArray: s[i] is the character after the bracket.
ParseArray(s, i) ==
  LET j == SkipWs(s, i) IN
  IF j > Len(s) THEN NoParse
  ELSE IF s[j] = Ord("]") THEN At(j + 1, ArrV(<< >>))
  ELSE ParseElements(s, j, << >>)

\* What follows the element v: the closing bracket, or a comma and the
\* next element.
AfterElement(s, items, v) ==
  IF ~v.ok THEN NoParse
  ELSE
    LET e   == SkipWs(s, v.pos)
        all == Append(items, [k |-> << >>, v |-> v.val])
    IN
    IF e > Len(s) THEN NoParse
    ELSE IF s[e] = Ord("]") THEN At(e + 1, ArrV(all))
    ELSE IF s[e] # Ord(",") THEN NoParse
    ELSE ParseElements(s, SkipWs(s, e + 1), all)

ParseElements(s, j, items) == AfterElement(s, items, ScanOnce(s, j))

\* scan_once, once the string, object, array, null, true and false cases
\* are excluded: a number that ends before index n, or a constant.
ScanNumber(s, i, n) ==
  IF n # 0 THEN At(n, NumberV(s, i, n))
  ELSE IF HasAt(s, i, S(<< "N", "a", "N" >>)) THEN At(i + 3, Atom("const", SubSeq(s, i, i + 2)))
  ELSE IF HasAt(s, i, S(<< "I", "n", "f", "i", "n", "i", "t", "y" >>))
    THEN At(i + 8, Atom("const", SubSeq(s, i, i + 7)))
  ELSE IF HasAt(s, i, S(<< "-", "I", "n", "f", "i", "n", "i", "t", "y" >>))
    THEN At(i + 9, Atom("const", SubSeq(s, i, i + 8)))
  ELSE NoParse

\* scan_once: the value that starts at s[i].
ScanOnce(s, i) ==
  IF i > Len(s) THEN NoParse
  ELSE IF s[i] = Ord("\"") THEN ScanString(s, i + 1, << >>)
  ELSE IF s[i] = Ord("{") THEN ParseObject(s, i + 1)
  ELSE IF s[i] = Ord("[") THEN ParseArray(s, i + 1)
  ELSE IF HasAt(s, i, S(<< "n", "u", "l", "l" >>)) THEN At(i + 4, NoneV)
  ELSE IF HasAt(s, i, S(<< "t", "r", "u", "e" >>)) THEN At(i + 4, Atom("true", << >>))
  ELSE IF HasAt(s, i, S(<< "f", "a", "l", "s", "e" >>))
    THEN At(i + 5, Atom("false", << >>))
  ELSE ScanNumber(s, i, NumberEnd(s, i))

\* json.loads(s): raised stands for json.JSONDecodeError.
JsonLoads(s) ==
  LET r == ScanOnce(s, SkipWs(s, 1)) IN
  IF ~r.ok THEN [raised |-> TRUE, val |-> NoneV]
  ELSE IF SkipWs(s, r.pos) # Len(s) + 1 THEN [raised |-> TRUE, val |-> NoneV]
  ELSE [raised |-> FALSE, val |-> r.val]

(***************************************************************************)
(* json.dumps with its defaults: ensure_ascii, separators ", " and ": ".   *)
(***************************************************************************)
HexDigits ==
  S(<< "0", "1", "2", "3", "4", "5", "6", "7", "8", "9", "a", "b", "c", "d",
       "e", "f" >>)

\* '\\u{0:04x}'.format(n)
EscapeU(n) ==
  << Ord("\\"), Ord("u"), HexDigits[(n \div 4096) + 1], HexDigits[((n \div 256) % 16) + 1],
     HexDigits[((n \div 16) % 16) + 1], HexDigits[(n % 16) + 1] >>

EscapeChar(c) ==
  IF c = Ord("\"") \/ c = Ord("\\") THEN << Ord("\\"), c >>
  ELSE IF c = 10 THEN << Ord("\\"), Ord("n") >>
  ELSE IF c = 13 THEN << Ord("\\"), Ord("r") >>
  ELSE IF c = 9 THEN << Ord("\\"), Ord("t") >>
  ELSE IF c = 8 THEN << Ord("\\"), Ord("b") >>
  ELSE IF c = 12 THEN << Ord("\\"), Ord("f") >>
  ELSE IF c >= 32 /\ c <= 126 THEN << c >>
  ELSE IF c < 65536 THEN EscapeU(c)
  ELSE EscapeU(55296 + (((c - 65536) \div 1024) % 1024))
       \o EscapeU(56320 + ((c - 65536) % 1024))

\* The escaped form of s[lo..hi], halving the range.
RECURSIVE EscapeRange(_, _, _)
EscapeRange(s, lo, hi) ==
  IF lo > hi THEN << >>
  ELSE IF lo = hi THEN EscapeChar(s[lo])
  ELSE LET mid == (lo + hi) \div 2 IN
       EscapeRange(s, lo, mid) \o EscapeRange(s, mid + 1, hi)

\* py_encode_basestring_ascii
EncodeString(s) == << Ord("\"") >> \o EscapeRange(s, 1, Len(s)) \o << Ord("\"") >>

RECURSIVE JsonDumps(_)
RECURSIVE DumpItems(_, _, _)

DumpItems(items, i, withKeys) ==
  IF i > Len(items) THEN << >>
  ELSE (IF i > 1 THEN S(<< ",", " " >>) ELSE << >>)
       \o (IF withKeys THEN EncodeString(items[i].k) \o S(<< ":", " " >>) ELSE << >>)
       \o JsonDumps(items[i].v)
       \o DumpItems(items, i + 1, withKeys)

JsonDumps(v) ==
  IF v.t = "str" THEN EncodeString(v.s)
  ELSE IF v.t = "obj"
    THEN << Ord("{") >> \o DumpItems(v.items, 1, TRUE) \o << Ord("}") >>
  ELSE IF v.t = "arr"
    THEN << Ord("[") >> \o DumpItems(v.items, 1, FALSE) \o << Ord("]") >>
  ELSE IF v.t = "true" THEN S(<< "t", "r", "u", "e" >>)
  ELSE IF v.t = "false" THEN S(<< "f", "a", "l", "s", "e" >>)
  ELSE IF v.t = "null" THEN S(<< "n", "u", "l", "l" >>)
  ELSE v.s


(***************************************************************************)
(* encrypt_payload.  raised stands for the AttributeError of a payload     *)
(* that is no dict, of a flag that is no str and of a truthy field that is *)
(* no str, and for the UnicodeEncodeError of a field that holds a lone     *)
(* surrogate.                                                              *)
(***************************************************************************)
RaiseV == [raised |-> TRUE, val |-> NoneV]

\* str.lower(), on the ASCII letters.
Lower(s) ==
  [i \in DOMAIN s |->
     IF s[i] >= Ord("A") /\ s[i] <= Ord("Z") THEN s[i] + 32 ELSE s[i]]

\* bool(v)
Truthy(v) ==
  IF v.t = "str" THEN v.s # << >>
  ELSE IF v.t \in {"obj", "arr"} THEN v.items # << >>
  ELSE IF v.t \in {"int", "float"}
    THEN \E i \in DOMAIN v.s :
           /\ v.s[i] >= Ord("1") /\ v.s[i] <= Ord("9")
           /\ \A j \in 1..i : v.s[j] \notin {Ord("e"), Ord("E")}
  ELSE v.t \in {"true", "const"}

\* Lines 16-36: the body of "if encrypt_flag == 'true'", then line 38.
SealField(payload) ==
  LET data_to_encrypt == DictGet(payload, Key_Payload, StrV(<< >>)) IN
  IF ~Truthy(data_to_encrypt) THEN Return(payload)
  ELSE IF data_to_encrypt.t # "str" THEN RaiseV
  ELSE
    LET data_bytes == Utf8Encode(data_to_encrypt.s) IN
    IF data_bytes.raised THEN RaiseV
    ELSE
      LET encrypted_value == Seal(data_bytes.val, secret_key) IN
      Return(DictSet(DictSet(payload, Key_Payload, StrV(encrypted_value)),
                     Key_Encrypted, StrV(S(<< "t", "r", "u", "e" >>))))

\* encrypt_payload leaving alone an envelope that carries the marker.
encrypt_payload_MarkerAware(payload) ==
  IF payload.t # "obj" THEN RaiseV
  ELSE IF DictGet(payload, Key_Encrypted, NoneV) = StrV(S(<< "t", "r", "u", "e" >>))
    THEN Return(payload)
  ELSE
    LET flag == DictGet(payload, Key_Encrypt, StrV(S(<< "f", "a", "l", "s", "e" >>))) IN
    IF flag.t # "str" THEN RaiseV
    ELSE IF Lower(flag.s) # S(<< "t", "r", "u", "e" >>) THEN Return(payload)
    ELSE SealField(payload)

encrypt_payload(payload) ==
  IF payload.t # "obj" THEN RaiseV
  ELSE
    LET flag == DictGet(payload, Key_Encrypt, StrV(S(<< "f", "a", "l", "s", "e" >>))) IN
    IF flag.t # "str" THEN RaiseV
    ELSE
      LET encrypt_flag == Lower(flag.s) IN
      IF encrypt_flag # S(<< "t", "r", "u", "e" >>) THEN Return(payload)
      ELSE SealField(payload)


(***************************************************************************)
(* lambda_handler.  The for loop of lines 74-117 is followed record by     *)
(* record and step by step; stage[i] tells how far record i has got:       *)
(*   Received            the loop has not decoded it yet (line 75)         *)
(*   Decoded             after lines 79-80                                 *)
(*   Parsed              after line 86, json.loads returned                *)
(*   WrappedAsPlainText  after line 89, json.loads raised JSONDecodeError  *)
(*   Sealed, Unchanged   after line 92, encrypt_payload sealed the field   *)
(*                       or left the envelope as it was                    *)
(*   Reserialized        after line 97                                     *)
(*   EmittedOk           after lines 100-107                               *)
(*   EmittedFailed       after the except block, lines 109-117             *)
(* payload_bytes, payload_str, payload and output_data are the locals of   *)
(* the function: they keep their values from one record to the next.       *)
(***************************************************************************)
VARIABLES records, idx, stage, payload_bytes, payload_str, payload,
          output_data, output_records, returned

driverVars ==
  << records, idx, stage, payload_bytes, payload_str, payload, output_data,
     output_records, returned >>

Terminal == {"EmittedOk", "EmittedFailed"}

\* The size of the batches the model feeds to lambda_handler.
MaxRecords == 2

\* 'hello'
Text_hello ==
  S(<< "h", "e", "l", "l", "o" >>)

\* '123'
Text_number == S(<< "1", "2", "3" >>)

\* The payload of test_lambda_local.py, as the API sends it.
Text_example ==
  S(<< "{", "\"", "A", "p", "p", "l", "i", "c", "a", "t", "i", "o", "n", "D",
       "a", "t", "a", ".", "E", "n", "c", "r", "y", "p", "t", "\"", ":",
       "\"", "t", "r", "u", "e", "\"", ",", "\"", "A", "p", "p", "l", "i",
       "c", "a", "t", "i", "o", "n", "D", "a", "t", "a", ".", "P", "a", "y",
       "l", "o", "a", "d", "\"", ":", "\"", "s", "u", "d", "h", "i", "r",
       " ", "k", "i", "l", "a", "n", "i", "\"", "}" >>)

Member(k, v) == [k |-> k, v |-> v]

Text_false ==
  JsonDumps(ObjV(<< Member(Key_Encrypt, StrV(S(<< "f", "a", "l", "s", "e" >>))),
                    Member(Key_Payload, StrV(S(<< "h", "i" >>))) >>))

Text_numberPayload ==
  JsonDumps(ObjV(<< Member(Key_Encrypt, StrV(S(<< "t", "r", "u", "e" >>))),
                    Member(Key_Payload, Atom("int", S(<< "5" >>))) >>))

\* The base64 form Firehose gives a text.
DataOf(text) == B64Encode(Utf8Encode(text).val)

\* The data strings of the records: 'aGk' (incorrect padding), '/x=='
\* (decodes to the byte 0xFF, which is no UTF-8, and is not the canonical
\* encoding of it), the empty string, and the texts above.
DataSet ==
  { S(<< "a", "G", "k" >>), S(<< "/", "x", "=", "=" >>), << >>,
    DataOf(Text_hello), DataOf(Text_number), DataOf(Text_example),
    DataOf(Text_false), DataOf(Text_numberPayload) }

RecordIds == << "rec-b", "rec-a", "rec-c", "rec-d" >>

Batches ==
  UNION { [1..n -> DataSet] : n \in 0..MaxRecords }

EventRecords(batch) ==
  [i \in DOMAIN batch |-> [recordId |-> RecordIds[i], data |-> batch[i]]]

\* The except block marking the record Dropped.
ExceptRecord_Dropped(record) ==
  [recordId |-> record.recordId, result |-> "Dropped", data |-> record.data]

\* The except block encoding again the bytes it decoded.
ExceptRecord_Reencoded(record) ==
  [recordId |-> record.recordId, result |-> "ProcessingFailed",
   data |-> B64Encode(B64Decode(record.data).val)]

\* Lines 113-117: the record the except block appends.
ExceptRecord(record) ==
  [recordId |-> record.recordId, result |-> "ProcessingFailed",
   data |-> record.data]

\* Lines 103-107: the record the try block appends.
OkRecord(record, output_data_b64) ==
  [recordId |-> record.recordId, result |-> "Ok", data |-> output_data_b64]

\* The loop given up after a record.
NextRecord_Abort(i) == Len(records) + 1

\* The loop passing over the record that follows.
NextRecord_Skip(i) == i + 2

\* Line 74: the loop goes on with the next record, whatever became of this one.
NextRecord(i) == i + 1

\* Line 89
WrapAsMessage(text) == ObjV(<< Member(Key_message, StrV(text)) >>)

DriverInit ==
  /\ records \in { EventRecords(b) : b \in Batches }
  /\ idx = 1
  /\ stage = [i \in DOMAIN records |-> "Received"]
  /\ payload_bytes = << >>
  /\ payload_str = << >>
  /\ payload = NoneV
  /\ output_data = << >>
  /\ output_records = << >>
  /\ returned = FALSE

InLoop == ~returned /\ idx <= Len(records)

\* Lines 109-117, then the next iteration.
Except ==
  /\ output_records' = Append(output_records, ExceptRecord(records[idx]))
  /\ stage' = [stage EXCEPT ![idx] = "EmittedFailed"]
  /\ idx' = NextRecord(idx)

Advance(to) ==
  /\ stage' = [stage EXCEPT ![idx] = to]
  /\ UNCHANGED << idx, output_records >>

\* Lines 79-80
Decode ==
  /\ InLoop /\ stage[idx] = "Received"
  /\ LET decoded == B64Decode(records[idx].data) IN
     IF decoded.raised
       THEN Except /\ UNCHANGED << payload_bytes, payload_str >>
       ELSE /\ payload_bytes' = decoded.val
            /\ LET text == Utf8Decode(decoded.val) IN
               IF text.raised
                 THEN Except /\ UNCHANGED payload_str
                 ELSE payload_str' = text.val /\ Advance("Decoded")
  /\ UNCHANGED << records, payload, output_data, returned >>

\* Lines 85-89
Parse ==
  /\ InLoop /\ stage[idx] = "Decoded"
  /\ LET parsed == JsonLoads(payload_str) IN
     IF parsed.raised
       THEN payload' = WrapAsMessage(payload_str) /\ Advance("WrappedAsPlainText")
       ELSE payload' = parsed.val /\ Advance("Parsed")
  /\ UNCHANGED << records, payload_bytes, payload_str, output_data, returned >>

\* Line 92
Transform ==
  /\ InLoop /\ stage[idx] \in {"Parsed", "WrappedAsPlainText"}
  /\ LET transformed == encrypt_payload(payload) IN
     IF transformed.raised
       THEN Except /\ UNCHANGED payload
       ELSE /\ payload' = transformed.val
            /\ Advance(IF transformed.val # payload THEN "Sealed" ELSE "Unchanged")
  /\ UNCHANGED << records, payload_bytes, payload_str, output_data, returned >>

\* Lines 94-97
Serialize ==
  /\ InLoop /\ stage[idx] \in {"Sealed", "Unchanged"}
  /\ output_data' = JsonDumps(payload) \o << 10 >>
  /\ Advance("Reserialized")
  /\ UNCHANGED << records, payload_bytes, payload_str, payload, returned >>

\* Lines 100-107
Emit ==
  /\ InLoop /\ stage[idx] = "Reserialized"
  /\ LET encoded == Utf8Encode(output_data) IN
     IF encoded.raised
       THEN Except
       ELSE /\ output_records' =
                 Append(output_records, OkRecord(records[idx], B64Encode(encoded.val)))
            /\ stage' = [stage EXCEPT ![idx] = "EmittedOk"]
            /\ idx' = NextRecord(idx)
  /\ UNCHANGED << records, payload_bytes, payload_str, payload, output_data, returned >>

\* Lines 119-124
ReturnResponse ==
  /\ ~returned /\ idx > Len(records)
  /\ returned' = TRUE
  /\ UNCHANGED << records, idx, stage, payload_bytes, payload_str, payload,
                  output_data, output_records >>


\* lambda_handler as a function of event['records']: the try block of one
\* record (lines 78-100), then the record lines 103-107 or 113-117 append.
TryBlock(record) ==
  LET decoded == B64Decode(record.data) IN
  IF decoded.raised THEN Raise
  ELSE
    LET text == Utf8Decode(decoded.val) IN
    IF text.raised THEN Raise
    ELSE
      LET parsed      == JsonLoads(text.val)
          transformed == encrypt_payload(IF parsed.raised THEN WrapAsMessage(text.val)
                                         ELSE parsed.val)
      IN
      IF transformed.raised THEN Raise
      ELSE
        LET encoded == Utf8Encode(JsonDumps(transformed.val) \o << 10 >>) IN
        IF encoded.raised THEN Raise ELSE Return(B64Encode(encoded.val))

lambda_handler(event_records) ==
  [i \in DOMAIN event_records |->
     LET tried == TryBlock(event_records[i]) IN
     IF tried.raised THEN ExceptRecord(event_records[i])
     ELSE OkRecord(event_records[i], tried.val)]

DriverIdle ==
  /\ records = << >> /\ idx = 1 /\ stage = << >> /\ payload_bytes = << >>
  /\ payload_str = << >> /\ payload = NoneV /\ output_data = << >>
  /\ output_records = << >> /\ returned = TRUE

(***************************************************************************)
(* The codec on its own: a byte string is sealed as lines 20-30 of         *)
(* encrypt_payload seal it, the sealed string is possibly altered on its   *)
(* way, and decrypt_payload is called on what arrives.                     *)
(*   u_bytes, u_key   the bytes sealed and the key they are sealed with    *)
(*   u_data           the string handed to decrypt_payload                 *)
(*   u_origin         "none", then where u_data comes from: "sealed",      *)
(*                    "tampered" or "forged"                               *)
(*   u_called         decrypt_payload has returned u_result, having been   *)
(*                    called with the key u_key_used                       *)
(***************************************************************************)
VARIABLES u_bytes, u_key, u_data, u_origin, u_called, u_key_used, u_result

codecVars == << u_bytes, u_key, u_data, u_origin, u_called, u_key_used, u_result >>

\* Byte strings to seal: b'', b'hi', b'a:b', 'h\xe9' 'llo' in UTF-8, the
\* euro sign, an emoji, and three that are no UTF-8: b'\xff', a lead byte
\* without its continuation, a surrogate encoded as three bytes.
ByteSeqs ==
  { << >>, << 104, 105 >>, << 97, 58, 98 >>, << 104, 195, 169, 108, 108, 111 >>,
    << 226, 130, 172 >>, << 240, 159, 152, 128 >>,
    << 255 >>, << 104, 195 >>, << 237, 160, 128 >> }

\* Keys: the key of the program, and b'k'.
Keys == { secret_key, << 107 >> }

\* Strings no sealing produces: 'not-base64-at-all', 'onlyonesegment',
\* '!!:??', 'a:b:c', ':', '', 'aGk=:AAAA', '/w==:AAAA', and a string with a
\* character outside ASCII.
ForgedSet ==
  { S(<< "n", "o", "t", "-", "b", "a", "s", "e", "6", "4", "-", "a", "t", "-", "a", "l", "l" >>),
    S(<< "o", "n", "l", "y", "o", "n", "e", "s", "e", "g", "m", "e", "n", "t" >>),
    S(<< "!", "!", ":", "?", "?" >>), S(<< "a", ":", "b", ":", "c" >>),
    S(<< ":" >>), << >>,
    S(<< "a", "G", "k", "=", ":", "A", "A", "A", "A" >>),
    S(<< "/", "w", "=", "=", ":", "A", "A", "A", "A" >>),
    << 233 >> \o S(<< ":", "A", "A", "A", "A" >>) }

\* s with the character at position p replaced by another of the alphabet.
Replaced(s, p) ==
  [s EXCEPT ![p] = IF s[p] = Ord("A") THEN Ord("B") ELSE Ord("A")]

\* What an alteration on the way can make of the sealed string s: a
\* character of the tag or of the data replaced, the last character lost,
\* the delimiter lost, a second delimiter added, the two segments swapped.
TamperedSet(s) ==
  LET parts == Split(s, Colon) IN
  { Replaced(s, Len(s) - 2), SubSeq(s, 1, Len(s) - 1),
    parts[1] \o parts[2], s \o << Colon >>, parts[2] \o << Colon >> \o parts[1] }
  \cup (IF parts[1] # << >> THEN { Replaced(s, 1) } ELSE {})

CodecIdle ==
  /\ u_bytes = << >> /\ u_key = << >> /\ u_data = << >> /\ u_origin = "none"
  /\ u_called = FALSE /\ u_key_used = << >> /\ u_result = NoneFalse

CodecInit ==
  /\ u_bytes \in ByteSeqs
  /\ u_key \in Keys
  /\ u_data = << >>
  /\ u_origin = "none"
  /\ u_called = FALSE
  /\ u_key_used = << >>
  /\ u_result = NoneFalse

SealBytes ==
  /\ u_origin = "none"
  /\ u_data' = Seal(u_bytes, u_key)
  /\ u_origin' = "sealed"
  /\ UNCHANGED << u_bytes, u_key, u_called, u_key_used, u_result >>

Tamper ==
  /\ u_origin = "sealed" /\ ~u_called
  /\ u_data' \in TamperedSet(u_data)
  /\ u_origin' = "tampered"
  /\ UNCHANGED << u_bytes, u_key, u_called, u_key_used, u_result >>

Forge ==
  /\ u_origin = "none"
  /\ u_data' \in ForgedSet
  /\ u_origin' = "forged"
  /\ UNCHANGED << u_bytes, u_key, u_called, u_key_used, u_result >>

Unseal ==
  /\ u_origin # "none" /\ ~u_called
  /\ \E key \in Keys :
       /\ u_key_used' = key
       /\ u_result' = decrypt_payload(u_data, key)
  /\ u_called' = TRUE
  /\ UNCHANGED << u_bytes, u_key, u_data, u_origin >>

(***************************************************************************)
(* encrypt_payload on its own, pass after pass: the envelope a pass        *)
(* returns is given to the next one, and decrypt_payload is then applied   *)
(* to the field, and to what it returns, again and again.                  *)
(*   e_history   the envelope given, then the envelope after each pass     *)
(*   e_raised    the last call of encrypt_payload raised                   *)
(*   e_unsealed  the number of calls of decrypt_payload so far             *)
(*   e_value     what the last call of decrypt_payload returned            *)
(***************************************************************************)
VARIABLES e_history, e_raised, e_unsealed, e_value

envelopeVars == << e_history, e_raised, e_unsealed, e_value >>

\* The number of times an envelope goes through encrypt_payload.
MaxPasses == 2

TrueStr == S(<< "t", "r", "u", "e" >>)

\* Values of 'ApplicationData.Encrypt': 'true', 'TRUE', 'True', 'false',
\* 'yes', '', the JSON constant true.  The empty tuple stands for a key
\* that is absent.
FlagValues ==
  { << >>, << StrV(TrueStr) >>, << StrV(S(<< "T", "R", "U", "E" >>)) >>,
    << StrV(S(<< "T", "r", "u", "e" >>)) >>,
    << StrV(S(<< "f", "a", "l", "s", "e" >>)) >>, << StrV(S(<< "y", "e", "s" >>)) >>,
    << StrV(<< >>) >>, << Atom("true", << >>) >> }

\* Values of 'ApplicationData.Payload': '', 'hi', 'h\xe9' (a character
\* outside ASCII), a lone surrogate, the numbers 5 and 0, null.
PayloadValues ==
  { << >>, << StrV(<< >>) >>, << StrV(S(<< "h", "i" >>)) >>, << StrV(<< 104, 233 >>) >>,
    << StrV(<< 55296 >>) >>, << Atom("int", S(<< "5" >>)) >>,
    << Atom("int", S(<< "0" >>)) >>, << NoneV >> }

\* Values of 'ApplicationData.Encrypted' in the envelope given.
MarkerValues == { << >>, << StrV(TrueStr) >> }

\* The members a key with these values contributes to a dict.
Members(key, values) == [i \in DOMAIN values |-> Member(key, values[i])]

\* 'ApplicationData.Message': 'test message'
OtherMember ==
  Member(S(<< "A", "p", "p", "l", "i", "c", "a", "t", "i", "o", "n", "D", "a", "t", "a", ".",
              "M", "e", "s", "s", "a", "g", "e" >>),
         StrV(S(<< "t", "e", "s", "t", " ", "m", "e", "s", "s", "a", "g", "e" >>)))

EnvelopeSet ==
  { ObjV(Members(Key_Encrypted, m) \o Members(Key_Encrypt, f)
         \o Members(Key_Payload, p) \o << OtherMember >>) :
      m \in MarkerValues, f \in FlagValues, p \in PayloadValues }

EnvelopeIdle ==
  /\ e_history = << >> /\ e_raised = FALSE /\ e_unsealed = 0 /\ e_value = NoneFalse

EnvelopeInit ==
  /\ e_history \in { << e >> : e \in EnvelopeSet }
  /\ e_raised = FALSE
  /\ e_unsealed = 0
  /\ e_value = NoneFalse

\* The number of passes that returned.
Passes == Len(e_history) - 1

\* The field of the envelope after the last pass.
Field == DictGet(e_history[Len(e_history)], Key_Payload, NoneV)

EncryptPass ==
  /\ ~e_raised /\ e_unsealed = 0 /\ Passes < MaxPasses
  /\ LET transformed == encrypt_payload(e_history[Len(e_history)]) IN
     IF transformed.raised
       THEN e_raised' = TRUE /\ UNCHANGED e_history
       ELSE e_history' = Append(e_history, transformed.val) /\ UNCHANGED e_raised
  /\ UNCHANGED << e_unsealed, e_value >>

DecryptField ==
  /\ ~e_raised /\ Passes >= 1 /\ Field.t = "str"
  /\ e_unsealed = 0
  /\ e_value' = decrypt_payload(Field.s, secret_key)
  /\ e_unsealed' = 1
  /\ UNCHANGED << e_history, e_raised >>

DecryptAgain ==
  /\ e_unsealed >= 1 /\ e_unsealed <= Passes /\ ~e_value.is_none
  /\ e_value' = decrypt_payload(e_value.decrypted_data, secret_key)
  /\ e_unsealed' = e_unsealed + 1
  /\ UNCHANGED << e_history, e_raised >>

(***************************************************************************)
(* Specifications.                                                         *)
(***************************************************************************)
vars == << driverVars, codecVars, envelopeVars >>

\* lambda_handler on a batch.
Init == DriverInit /\ CodecIdle /\ EnvelopeIdle

Next ==
  \/ Decode /\ UNCHANGED << codecVars, envelopeVars >>
  \/ Parse /\ UNCHANGED << codecVars, envelopeVars >>
  \/ Transform /\ UNCHANGED << codecVars, envelopeVars >>
  \/ Serialize /\ UNCHANGED << codecVars, envelopeVars >>
  \/ Emit /\ UNCHANGED << codecVars, envelopeVars >>
  \/ ReturnResponse /\ UNCHANGED << codecVars, envelopeVars >>

Spec == Init /\ [][Next]_vars

\* The codec on its own.
CodecSpecInit == CodecInit /\ DriverIdle /\ EnvelopeIdle

CodecNext ==
  \/ SealBytes /\ UNCHANGED << driverVars, envelopeVars >>
  \/ Tamper /\ UNCHANGED << driverVars, envelopeVars >>
  \/ Forge /\ UNCHANGED << driverVars, envelopeVars >>
  \/ Unseal /\ UNCHANGED << driverVars, envelopeVars >>

CodecSpec == CodecSpecInit /\ [][CodecNext]_vars

\* encrypt_payload on its own.
EnvelopeSpecInit == EnvelopeInit /\ DriverIdle /\ CodecIdle

EnvelopeNext ==
  \/ EncryptPass /\ UNCHANGED << driverVars, codecVars >>
  \/ DecryptField /\ UNCHANGED << driverVars, codecVars >>
  \/ DecryptAgain /\ UNCHANGED << driverVars, codecVars >>

EnvelopeSpec == EnvelopeSpecInit /\ [][EnvelopeNext]_vars

(***************************************************************************)
(* The claims of the specification.                                        *)
(***************************************************************************)

\* C1: at every moment the response holds at most one record per input
\* record, record i of the output carrying the recordId of record i of the
\* input and a result that is "Ok" or "ProcessingFailed"; when
\* lambda_handler returns, the response holds exactly as many records as the
\* batch.
C1_BatchInvariant ==
  /\ Len(output_records) <= Len(records)
  /\ \A i \in DOMAIN output_records :
       /\ output_records[i].recordId = records[i].recordId
       /\ output_records[i].result \in {"Ok", "ProcessingFailed"}
  /\ returned => Len(output_records) = Len(records)

C1_Witness ==
  /\ returned
  /\ Len(output_records) = 2
  /\ output_records[1].result = "ProcessingFailed"
  /\ output_records[2].result = "Ok"

\* C4: until lambda_handler returns, the loop is at a record it has not
\* finished or past the last one (no exception has left the loop and
\* stopped it), and the record it returns for each input record is the one
\* it returns for a batch made of that record alone.
C4_Isolation ==
  /\ ~returned => (idx > Len(records) \/ stage[idx] \notin Terminal)
  /\ returned =>
       /\ Len(output_records) = Len(records)
       /\ \A i \in DOMAIN records :
            output_records[i] = lambda_handler(<< records[i] >>)[1]

C4_Witness ==
  /\ returned
  /\ Len(records) = 2
  /\ records[1].data = DataOf(Text_numberPayload)
  /\ records[2].data = DataOf(Text_example)
  /\ output_records[1].result = "ProcessingFailed"
  /\ output_records[2].result = "Ok"
  /\ output_records[2].data # records[2].data

\* C5: a record returned with the result "ProcessingFailed" carries the data
\* string of the input record, character for character.
C5_FailedVerbatim ==
  \A i \in DOMAIN output_records :
    output_records[i].result = "ProcessingFailed"
      => output_records[i].data = records[i].data

C5_Witness ==
  \E i \in DOMAIN output_records :
    /\ output_records[i].result = "ProcessingFailed"
    /\ records[i].data = S(<< "/", "x", "=", "=" >>)
    /\ B64Encode(B64Decode(records[i].data).val) # records[i].data

\* The envelope a returned record carries.
EmittedEnvelope(record) ==
  JsonLoads(Utf8Decode(B64Decode(record.data).val).val).val

\* C7, as the specification states it: a record whose data decodes to a text
\* that does not parse as a key-value document is returned with the result
\* "Ok" and the envelope {"message": text}.
C7_PlainTextAccepted ==
  \A i \in DOMAIN output_records :
    LET decoded == B64Decode(records[i].data)
        text    == Utf8Decode(decoded.val)
        parsed  == JsonLoads(text.val)
    IN  (/\ ~decoded.raised
         /\ ~text.raised
         /\ (parsed.raised \/ parsed.val.t # "obj"))
          => /\ output_records[i].result = "Ok"
             /\ EmittedEnvelope(output_records[i]) = WrapAsMessage(text.val)

\* C7, for the texts json.loads rejects: those are returned with the result
\* "Ok" and the envelope {"message": text}.
C7_RejectedTextAccepted ==
  \A i \in DOMAIN output_records :
    LET decoded == B64Decode(records[i].data)
        text    == Utf8Decode(decoded.val)
    IN  (~decoded.raised /\ ~text.raised /\ JsonLoads(text.val).raised)
          => /\ output_records[i].result = "Ok"
             /\ EmittedEnvelope(output_records[i]) = WrapAsMessage(text.val)

\* The transitions of the state machine of a record.
Edges ==
  ({"Received"} \X {"Decoded"})
    \cup ({"Decoded"} \X {"Parsed", "WrappedAsPlainText"})
    \cup ({"Parsed", "WrappedAsPlainText"} \X {"Sealed", "Unchanged"})
    \cup ({"Sealed", "Unchanged"} \X {"Reserialized"})
    \cup ({"Reserialized"} \X {"EmittedOk"})
    \cup ({"Received", "Decoded", "Parsed", "WrappedAsPlainText", "Sealed",
           "Unchanged", "Reserialized"} \X {"EmittedFailed"})

AllTerminal == \A i \in DOMAIN stage : stage[i] \in Terminal

Segments == Split(u_data, Colon)

WellFormed ==
  /\ Len(Segments) = 2
  /\ ~B64Decode(Segments[1]).raised
  /\ ~B64Decode(Segments[2]).raised

TagMatches ==
  B64Decode(Segments[2]).val
    = HmacSha256(u_key_used, B64Decode(Segments[1]).val)

C3_RoundTripAllBytes ==
  (u_called /\ u_origin = "sealed" /\ u_key_used = u_key) =>
    /\ ~u_result.is_none
    /\ u_result.is_valid
    /\ Utf8Encode(u_result.decrypted_data) = Return(u_bytes)

\* C3, amended: for every key k and every byte string b that is the UTF-8
\* form of a text, unsealing with k what sealing b with k gives returns that
\* text and True; for a byte string that is no UTF-8 it returns
\* (None, False).
C3_RoundTripUtf8 ==
  (u_called /\ u_origin = "sealed" /\ u_key_used = u_key) =>
    LET text == Utf8Decode(u_bytes) IN
    IF text.raised
      THEN u_result = NoneFalse
      ELSE /\ u_result = [is_none |-> FALSE, decrypted_data |-> text.val,
                          is_valid |-> TRUE]
           /\ Utf8Encode(u_result.decrypted_data) = Return(u_bytes)

C3_Witness ==
  /\ u_called /\ u_origin = "sealed" /\ u_key_used = u_key
  /\ u_bytes = << 104, 195, 169, 108, 108, 111 >>
  /\ u_result.is_valid
  /\ u_result.decrypted_data = << 104, 233, 108, 108, 111 >>

\* The first call of encrypt_payload has been made.
FirstPassDone == (Passes = 1 /\ ~e_raised) \/ (Passes = 0 /\ e_raised)

\* The control field of the envelope reads "true" once lowercased.
ReadsTrue(envelope) ==
  LET flag == DictGet(envelope, Key_Encrypt, NoneV) IN
  flag.t = "str" /\ Lower(flag.s) = TrueStr

\* The field to seal is there and is not empty.
HasPayload(envelope) ==
  DictHas(envelope, Key_Payload) /\ Truthy(DictGet(envelope, Key_Payload, NoneV))

\* C6, as the specification states it: when the control field reads "true"
\* once lowercased and the field to seal is there and not empty,
\* encrypt_payload returns the envelope with another value in that field and
\* the marker set to "true"; in every other case it returns the envelope as
\* it was given.
C6_PolicyFlag ==
  FirstPassDone =>
    /\ ~e_raised
    /\ IF ReadsTrue(e_history[1]) /\ HasPayload(e_history[1])
         THEN /\ DictGet(e_history[2], Key_Payload, NoneV)
                   # DictGet(e_history[1], Key_Payload, NoneV)
              /\ DictGet(e_history[2], Key_Encrypted, NoneV) = StrV(TrueStr)
         ELSE e_history[2] = e_history[1]

\* The two fields are strings, or are not there.
StringFields(envelope) ==
  /\ DictGet(envelope, Key_Encrypt, StrV(<< >>)).t = "str"
  /\ DictGet(envelope, Key_Payload, StrV(<< >>)).t = "str"
  /\ ~Utf8Encode(DictGet(envelope, Key_Payload, StrV(<< >>)).s).raised

\* C6, for the envelopes whose two fields are strings that UTF-8 can encode:
\* for those encrypt_payload returns, and does what the specification says.
C6_PolicyFlagOnStrings ==
  (FirstPassDone /\ StringFields(e_history[1])) => C6_PolicyFlag

\* The sealed string the specification describes for the text v.
ClaimedKey ==
  S(<< "s", "u", "d", "h", "i", "r", "1", "2", "3", "4", "5", "6", "7", "8", "9", "0" >>)

HasFormat(sealed, v) ==
  LET parts == Split(sealed, Colon) IN
  /\ Len(parts) = 2
  /\ parts[1] = B64Encode(Utf8Encode(v).val)
  /\ parts[2] = B64Encode(HmacSha256(ClaimedKey, Utf8Encode(v).val))
  /\ B64Decode(parts[1]) = Return(Utf8Encode(v).val)
  /\ Len(B64Decode(parts[2]).val) = DigestSize

\* C8: whenever a pass of encrypt_payload changes the envelope, the string
\* it stores is base64(utf8(v)), one ":", base64(HMAC-SHA256(key, utf8(v)))
\* in this order, v being the text that was in the field and key the 16
\* ASCII bytes "sudhir1234567890"; the marker then reads "true".
C8_SealedFormat ==
  \A n \in 1..Passes :
    e_history[n + 1] # e_history[n] =>
      /\ DictGet(e_history[n + 1], Key_Payload, NoneV).t = "str"
      /\ HasFormat(DictGet(e_history[n + 1], Key_Payload, NoneV).s,
                   DictGet(e_history[n], Key_Payload, NoneV).s)
      /\ DictGet(e_history[n + 1], Key_Encrypted, NoneV) = StrV(TrueStr)

C8_Witness ==
  /\ Passes = 1
  /\ DictGet(e_history[1], Key_Payload, NoneV) = StrV(<< 104, 233 >>)
  /\ e_history[2] # e_history[1]

\* The text in the field after n passes.
FieldAfter(n) == DictGet(e_history[n + 1], Key_Payload, NoneV).s

\* C10: an envelope whose control field reads "true" and whose field holds a
\* text is sealed by every pass, whatever the marker says: pass n seals the
\* text pass n - 1 left, which is another text.  After k passes, each of
\* the first k calls of decrypt_payload is valid and gives the text the
\* field had one pass earlier, so that the text first given comes back at
\* call k and not before; call k + 1 is not valid.
C10_NotIdempotent ==
  (/\ ReadsTrue(e_history[1])
   /\ HasPayload(e_history[1])
   /\ StringFields(e_history[1])) =>
    /\ ~e_raised
    /\ \A n \in 1..Passes :
         /\ ReadsTrue(e_history[n + 1])
         /\ FieldAfter(n) = Seal(Utf8Encode(FieldAfter(n - 1)).val, secret_key)
         /\ FieldAfter(n) # FieldAfter(n - 1)
    /\ (e_unsealed >= 1 /\ e_unsealed <= Passes) =>
         /\ e_value = [is_none |-> FALSE,
                       decrypted_data |-> FieldAfter(Passes - e_unsealed),
                       is_valid |-> TRUE]
         /\ e_value.decrypted_data = FieldAfter(0) <=> e_unsealed = Passes
    /\ e_unsealed > Passes => ~e_value.is_valid

C10_Witness ==
  /\ Passes = 2
  /\ e_unsealed = 2
  /\ DictGet(e_history[1], Key_Encrypted, NoneV) = StrV(TrueStr)
  /\ e_value.is_valid
  /\ e_value.decrypted_data = S(<< "h", "i" >>)

=============================================================================
